---- MODULE Spec2Model ----
(***************************************************************************)
(* Semantic-retrieval service: embedding client, vector-index query,       *)
(* noise filter, text extraction, context assembly and the /question/      *)
(* handler.  Texts are sequences of one-character strings, optional        *)
(* values are sequences of length 0 or 1, scores are hundredths.           *)
(***************************************************************************)
EXTENDS Integers, Sequences, FiniteSets, TLC

VARIABLES
    fText,        \* _is_boilerplate: the argument
    fRet,         \* _is_boilerplate: the returned value
    fDone,        \* _is_boilerplate has returned
    xKey,         \* _extract_text: self.text_key
    xPayload,     \* _extract_text: the payload argument
    xRet,         \* _extract_text: the returned string
    xDone,        \* _extract_text has returned
    aMatches,     \* answer_text: the matches argument
    aMaxChars,    \* answer_text: max_chars
    aMaxChunks,   \* answer_text: max_chunks
    aRet,         \* answer_text: the returned string
    aDone,        \* answer_text has returned
    noiseProfile, \* the noise filter's configured policy profile
    embedderImpl, \* the module whose OpenRouterEmbedder the searcher holds
    index,        \* the vector index: its answer to each query vector
    pc,           \* per invocation: where it stands
    question,     \* per invocation: the question argument
    top_k,        \* per invocation: the top_k argument
    score_threshold, \* per invocation: the score_threshold argument
    r,            \* per invocation: the provider's response, once received
    vector,       \* per invocation: the local vector of ask
    query,        \* per invocation: the vector sent to the index
    res,          \* per invocation: res.points
    result,       \* per invocation: the returned dict
    error,        \* per invocation: the exception that reached the caller
    embedCalls,   \* per invocation: requests sent to the embedding provider
    queryCalls,   \* per invocation: queries sent to the index
    response      \* per invocation: what the caller of question_api receives

fvars == <<fText, fRet, fDone>>
xvars == <<xKey, xPayload, xRet, xDone>>
avars == <<aMatches, aMaxChars, aMaxChunks, aRet, aDone>>
wvars == <<noiseProfile, embedderImpl, index>>
argvars == <<question, top_k, score_threshold>>
ivars == <<pc, argvars, r, vector, query, res, result, error, embedCalls, queryCalls, response>>
vars == <<fvars, xvars, avars, wvars, ivars>>

----------------------------------------------------------------------------
(* Characters and strings                                                  *)

Digits == {"0", "1", "2", "3", "4", "5", "6", "7", "8", "9"}

LowerLetters == <<"a", "b", "c", "d", "e", "f", "g", "h", "i", "j", "k", "l", "m",
                  "n", "o", "p", "q", "r", "s", "t", "u", "v", "w", "x", "y", "z">>

UpperLetters == <<"A", "B", "C", "D", "E", "F", "G", "H", "I", "J", "K", "L", "M",
                  "N", "O", "P", "Q", "R", "S", "T", "U", "V", "W", "X", "Y", "Z">>

Range(s) == {s[i] : i \in DOMAIN s}

\* str.lower() on one character
LowerMap == [c \in Range(UpperLetters) |->
                LowerLetters[CHOOSE i \in DOMAIN UpperLetters : UpperLetters[i] = c]]

\* \s of the re module, and the characters str.strip() removes
WhiteSpace == {" ", "\n", "\t"}

\* \w of the re module
WordChars == Range(LowerLetters) \cup Range(UpperLetters) \cup Digits \cup {"_"}

IsDigit(c) == c \in Digits
IsSpace(c) == c \in WhiteSpace
IsWord(c) == c \in WordChars

\* str.lower()
Lower(s) == [i \in DOMAIN s |-> IF s[i] \in DOMAIN LowerMap THEN LowerMap[s[i]] ELSE s[i]]

RECURSIVE LStrip(_)
LStrip(s) == IF s = <<>> \/ ~IsSpace(Head(s)) THEN s ELSE LStrip(Tail(s))

RECURSIVE RStrip(_)
RStrip(s) == IF s = <<>> \/ ~IsSpace(s[Len(s)]) THEN s ELSE RStrip(SubSeq(s, 1, Len(s) - 1))

\* str.strip()
Strip(s) == RStrip(LStrip(s))

\* needle in hay
Contains(hay, needle) ==
    \E i \in 1..(Len(hay) - Len(needle) + 1) : SubSeq(hay, i, i + Len(needle) - 1) = needle

\* str.replace("\n", " ")
ReplaceNewlines(s) == [i \in DOMAIN s |-> IF s[i] = "\n" THEN " " ELSE s[i]]

\* s repeated cyclically up to n characters
Rep(s, n) == [i \in 1..n |-> s[((i - 1) % Len(s)) + 1]]

----------------------------------------------------------------------------
(* QdrantSemanticSearch: the noise patterns set up by __init__             *)

_bad_substrings ==
    << <<"B", "a", "r", "c", "h", "a", " ", "h", "u", "q", "u", "q", "l", "a", "r">>,
       <<"©">>,
       <<"S", "O", "F", "F", " ", "C", "R", "M">>,
       <<"D", "e", "m", "o", " ", "o", "l", "i", "s", "h">>,
       <<"Q", "o", "'", "n", "g", "'", "i", "r", "o", "q">>,
       <<"N", "a", "r", "x", "l", "a", "r", "n", "i", " ", "k", "o", "'", "r", "i", "s", "h">>,
       <<"B", "i", "z", "n", "i", "n", "g", " ", "h", "a", "m", "j", "a", "m", "i", "y", "a",
         "t", "i", "m", "i", "z", "g", "a", " ", "q", "o", "'", "s", "h", "i", "l", "i", "n", "g">>,
       <<"K", "o", "n", "t", "a", "k", "t">>,
       <<"B", "i", "z", " ", "h", "a", "q", "i", "m", "i", "z", "d", "a">>,
       <<"B", "o", "s", "h", " ", "s", "a", "h", "i", "f", "a">> >>

\* len(t) < 60
MinLength == 60

\* the {7,} of _phone_re
PhoneMiddleMin == 7

\* the \w{1,3} of _only_short_tokens_re
TokenMax == 3

\* the {1,6} of _only_short_tokens_re
GroupMax == 6

\* [\d\s\-\(\)]
PhoneMiddle == Digits \cup WhiteSpace \cup {"-", "(", ")"}

\* the first position from i on whose character leaves the run: the run is of
\* characters in S (inside) or of characters not in S (~inside); Len(t)+1 if none
RECURSIVE RunEnd(_, _, _, _)
RunEnd(t, i, S, inside) ==
    IF i > Len(t) \/ ((t[i] \in S) # inside) THEN i ELSE RunEnd(t, i + 1, S, inside)

\* _phone_re matched with its \d at position p: the greedy middle run, then
\* backtracking to a last digit at least PhoneMiddleMin characters further on.
\* The optional leading "+" never decides a search.
PhoneMatchAt(t, p) ==
    /\ IsDigit(t[p])
    /\ LET e == RunEnd(t, p + 1, PhoneMiddle, TRUE)
       IN \E k \in (p + 1 + PhoneMiddleMin)..(e - 1) : IsDigit(t[k])

\* self._phone_re.search(t)
PhoneSearch(t) == \E p \in 1..Len(t) : PhoneMatchAt(t, p)

\* the positions after one (\W*\w{1,3}\W*) group that starts at position i
GroupEnds(t, i) ==
    LET w0 == RunEnd(t, i, WordChars, FALSE)
        w1 == RunEnd(t, w0, WordChars, TRUE)
    IN UNION {
         LET a == w0 + n
         IN IF a = w1 THEN a..RunEnd(t, a, WordChars, FALSE) ELSE {a}
         : n \in 1..(IF w1 - w0 < TokenMax THEN w1 - w0 ELSE TokenMax) }

GroupStep(t, from) == UNION {GroupEnds(t, i) : i \in from}

\* the positions reachable after 1..k groups
RECURSIVE AfterGroups(_, _, _)
AfterGroups(t, from, k) ==
    IF k = 0 \/ from = {} THEN {}
    ELSE LET next == GroupStep(t, from)
         IN next \cup AfterGroups(t, next, k - 1)

\* self._only_short_tokens_re.match(s): ^(\W*\w{1,3}\W*){1,6}$
OnlyShortTokensMatch(s) == (Len(s) + 1) \in AfterGroups(s, {1}, GroupMax)

\* any(s.lower() in low for s in self._bad_substrings)
HasBadSubstring(t) ==
    LET low == Lower(t)
    IN \E n \in DOMAIN _bad_substrings : Contains(low, Lower(_bad_substrings[n]))

\* the variant with "< 60" read as "< 40"
_is_boilerplate_loose(text) ==
    \/ text = <<>>
    \/ LET t == Strip(text)
       IN \/ Len(t) < 40
          \/ PhoneSearch(t)
          \/ HasBadSubstring(t)
          \/ OnlyShortTokensMatch(ReplaceNewlines(t))

\* QdrantSemanticSearch._is_boilerplate
_is_boilerplate(text) ==
    \/ text = <<>>
    \/ LET t == Strip(text)
       IN \/ Len(t) < MinLength
          \/ PhoneSearch(t)
          \/ HasBadSubstring(t)
          \/ OnlyShortTokensMatch(ReplaceNewlines(t))

----------------------------------------------------------------------------
(* Inputs of the noise filter                                              *)

\* longest filler of a filter input
MaxFill == 62

FillLens == {0, 25} \cup ((MinLength - 3)..MaxFill)

WordFill == <<"l", "o", "r", "e", "m", " ", "i", "p", "s", "u", "m", " ">>
PunctFill == <<".", " ", ",">>

Fragments ==
    {  <<>>,
       <<"+", "9", "9", "8", " ", "9", "0", " ", "1", "2", "3", " ", "4", "5", " ", "6", "7">>,
       <<"2", "0", "2", "0", " ", "-", " ", "2", "0", "2", "1">>,
       <<"1", " ", " ", " ", " ", " ", " ", " ", "2">>,
       <<"1", "2", "3", "4", "5", "6", "7", "8">>,
       <<"1", "2", "3", "4", "5", "6", "7", "8", "9">>,
       <<"1", "2", "3", "4", " ", "5", "6", "7", "8">>,
       <<"(", "9", "0", ")", " ", "1", "2", "3", "-", "4", "5", "-", "6", "7">>,
       <<"1", "2", " ", "3", "4", " ", "a", " ", "5", "6", " ", "7", "8", " ", "9">>,
       <<"k", "o", "n", "t", "a", "k", "t">>,
       <<"K", "O", "N", "T", "A", "K", "T">>,
       <<"B", "a", "r", "c", "h", "a", " ", "H", "u", "q", "u", "q", "l", "a", "r">>,
       <<"©">>,
       <<"a", "b", " ", "c", "d", " ", "e", "f">>,
       <<"a", "b", "c", "d", "e", "f", "g", "h", "i", "j", "k", "l", "m", "n", "o", "p", "q", "r">>,
       <<"a", "b", "c", "d", "e", "f", "g", "h", "i", "j", "k", "l", "m", "n", "o", "p", "q", "r", "s">>,
       <<"a", "b", "\n", "c", "d">>,
       <<"a", "b", "c", "d", "_", "x">> }

Margins == {<<>>, <<" ", "\n">>}

FilterInputs ==
    { lead \o Rep(fill, n) \o frag \o Rep(fill, m) \o trail :
        lead \in Margins, trail \in Margins, fill \in {WordFill, PunctFill},
        n \in FillLens, m \in {0, 2}, frag \in Fragments }

InitFilter ==
    /\ fText \in FilterInputs
    /\ fRet = FALSE
    /\ fDone = FALSE

CallIsBoilerplate ==
    /\ ~fDone
    /\ fRet' = _is_boilerplate(fText)
    /\ fDone' = TRUE
    /\ UNCHANGED fText

----------------------------------------------------------------------------
(* QdrantSemanticSearch._extract_text                                      *)

\* a payload value: a str (val holds its characters) or anything else
StrValue(chars) == [kind |-> "str", val |-> chars]
OtherValue == [kind |-> "other", val |-> <<>>]

\* payload.get(k): None for a key the payload does not hold
Get(payload, k) == IF k \in DOMAIN payload THEN payload[k] ELSE OtherValue

\* isinstance(v, str) and v.strip()
IsUsable(v) == v.kind = "str" /\ Strip(v.val) # <<>>

\* the keys of the fallback loop, in its order
FallbackKeys == <<"clean_text", "text", "body", "answer", "question">>

\* the loop over the fallback keys from its n-th key on, then return ""
RECURSIVE ProbeFallbacks(_, _)
ProbeFallbacks(payload, n) ==
    IF n > Len(FallbackKeys) THEN <<>>
    ELSE LET v == Get(payload, FallbackKeys[n])
         IN IF IsUsable(v) THEN Strip(v.val) ELSE ProbeFallbacks(payload, n + 1)

\* the variant that returns the primary key's value whenever it is a str
_extract_text_unchecked(text_key, payload) ==
    LET val == Get(payload, text_key)
    IN IF val.kind = "str" THEN Strip(val.val) ELSE ProbeFallbacks(payload, 1)

_extract_text(text_key, payload) ==
    LET val == Get(payload, text_key)
    IN IF IsUsable(val) THEN Strip(val.val) ELSE ProbeFallbacks(payload, 1)

----------------------------------------------------------------------------
(* Inputs of _extract_text                                                 *)

PayloadKeys == {"content", "clean_text", "text", "body", "answer", "question"}

TextKeys == {"text", "content", "answer"}

PayloadValues ==
    { OtherValue,
      StrValue(<<>>),
      StrValue(<<" ", "\n">>),
      StrValue(<<" ", "h", "i", "\t">>),
      StrValue(<<"y", "o">>) }

Payloads == UNION { [D -> PayloadValues] : D \in SUBSET PayloadKeys }

InitExtract ==
    /\ xKey \in TextKeys
    /\ xPayload \in Payloads
    /\ xRet = <<>>
    /\ xDone = FALSE

CallExtractText ==
    /\ ~xDone
    /\ xRet' = _extract_text(xKey, xPayload)
    /\ xDone' = TRUE
    /\ UNCHANGED <<xKey, xPayload>>

----------------------------------------------------------------------------
(* Optional values                                                         *)

None == <<>>
Some(x) == <<x>>

\* s[:n]
Take(s, n) == SubSeq(s, 1, IF Len(s) < n THEN Len(s) ELSE n)

----------------------------------------------------------------------------
(* OpenRouterEmbedder.embed: the two classes of that name                  *)

\* raise Exception(f"Error: {response.text}")
EmbedErrorOfEmbedder(resp) == <<"Error: ", resp.text>>

\* raise Exception(f"OpenRouter error {r.status_code}: {r.text}")
EmbedErrorOfSearch(resp) == <<"OpenRouter error ", resp.status_code, ": ", resp.text>>

EmbedError(impl, resp) ==
    IF impl = "embedder" THEN EmbedErrorOfEmbedder(resp) ELSE EmbedErrorOfSearch(resp)

\* from embedder import OpenRouterEmbedder
HandlerEmbedder == "embedder"

EmbedderImpls == {"embedder", "search"}

----------------------------------------------------------------------------
(* QdrantSemanticSearch.ask: the selection made from res.points            *)

\* text_key="text"
text_key == "text"

EmptyPayload == <<>>

\* p.payload or {}
PayloadOrEmpty(p) == IF p.payload = None THEN EmptyPayload ELSE p.payload[1]

\* score_threshold is not None and score is not None and score < score_threshold
BelowThreshold(p, threshold) ==
    threshold # None /\ p.score # None /\ p.score[1] < threshold[1]

\* the variant whose loop does not apply the threshold
RECURSIVE ChosenIndexNoThreshold(_, _, _)
ChosenIndexNoThreshold(points, threshold, n) ==
    IF n > Len(points) THEN 0
    ELSE IF _is_boilerplate(_extract_text(text_key, PayloadOrEmpty(points[n])))
         THEN ChosenIndexNoThreshold(points, threshold, n + 1)
    ELSE n

\* the loop: the index of the first point neither skipped by the threshold
\* nor judged boilerplate, 0 when the loop ends with chosen = None
RECURSIVE ChosenIndex(_, _, _)
ChosenIndex(points, threshold, n) ==
    IF n > Len(points) THEN 0
    ELSE IF BelowThreshold(points[n], threshold) THEN ChosenIndex(points, threshold, n + 1)
    ELSE IF _is_boilerplate(_extract_text(text_key, PayloadOrEmpty(points[n])))
         THEN ChosenIndex(points, threshold, n + 1)
    ELSE n

\* the variant that reports found for the top-1 fallback
AskReturnFoundAlways(points, threshold) ==
    IF points = <<>>
    THEN [found |-> FALSE, text |-> None, score |-> None, payload |-> None]
    ELSE LET c == ChosenIndex(points, threshold, 1)
             p == points[IF c = 0 THEN 1 ELSE c]
             text == _extract_text(text_key, PayloadOrEmpty(p))
         IN [found |-> TRUE,
             text |-> IF c = 0 /\ text = <<>> THEN None ELSE Some(text),
             score |-> p.score,
             payload |-> Some(PayloadOrEmpty(p))]

\* what ask returns once the index has answered with points
AskReturn(points, threshold) ==
    IF points = <<>>
    THEN [found |-> FALSE, text |-> None, score |-> None, payload |-> None]
    ELSE LET c == ChosenIndex(points, threshold, 1)
         IN IF c = 0
            THEN LET p0 == points[1]
                     payload0 == PayloadOrEmpty(p0)
                     text0 == _extract_text(text_key, payload0)
                 IN [found |-> FALSE,
                     text |-> IF text0 = <<>> THEN None ELSE Some(text0),
                     score |-> p0.score,
                     payload |-> Some(payload0)]
            ELSE LET p == points[c]
                     payload == PayloadOrEmpty(p)
                 IN [found |-> TRUE,
                     text |-> Some(_extract_text(text_key, payload)),
                     score |-> p.score,
                     payload |-> Some(payload)]

----------------------------------------------------------------------------
(* The embedding provider and the vector index                             *)

\* concurrent invocations
NumInv == 2

Invocations == 1..NumInv

Questions == {"q1", "q2"}

\* the embedding the provider computes for a question
ProviderEmbedding(q) == IF q = "q1" THEN "v1" ELSE "v2"

Vectors == {ProviderEmbedding(q) : q \in Questions}

\* the non-success answers of the provider
FailureResponses ==
    { [status_code |-> "429", text |-> "slow down"],
      [status_code |-> "500", text |-> "boom"] }

SuccessResponse(q) == [status_code |-> "200", text |-> ProviderEmbedding(q)]

SignalA == Rep(WordFill, 65)
SignalB == Rep(<<"d", "o", "l", "o", "r", " ", "s", "i", "t", " ">>, 64)
Menu == <<"B", "o", "s", "h", " ", "s", "a", "h", "i", "f", "a">>

Point(id, score, payload) == [id |-> id, score |-> score, payload |-> payload]

\* the points the index may hold
PointPool ==
    { Point(1, Some(90), Some([text |-> StrValue(<<" ">> \o SignalA \o <<"\n">>)])),
      Point(2, Some(20), Some([clean_text |-> StrValue(SignalB)])),
      Point(3, Some(50), Some([text |-> StrValue(Menu)])),
      Point(4, None, Some([text |-> OtherValue, body |-> StrValue(SignalB)])),
      Point(5, Some(10), None) }

\* points in one answer of the index
MaxPoints == 3

RECURSIVE SeqsUpTo(_, _)
SeqsUpTo(S, n) ==
    IF n = 0 THEN {<<>>}
    ELSE LET shorter == SeqsUpTo(S, n - 1)
         IN shorter \cup {Append(q, x) : q \in {t \in shorter : Len(t) = n - 1}, x \in S}

PointLists == SeqsUpTo(PointPool, MaxPoints)

\* top_k: int = 8
DefaultTopK == 8

\* score_threshold: Optional[float] = 0.30, in hundredths
DefaultThreshold == 30

TopKs == {1, DefaultTopK}
Thresholds == {None, Some(DefaultThreshold)}

\* an index that answers each query vector with its own points
IndexByVector ==
    [v \in Vectors |->
        IF v = "v1"
        THEN << Point(2, Some(20), Some([clean_text |-> StrValue(SignalB)])),
                Point(1, Some(90), Some([text |-> StrValue(SignalA)])) >>
        ELSE << Point(3, Some(50), Some([text |-> StrValue(Menu)])) >>]

----------------------------------------------------------------------------
(* One invocation of QdrantSemanticSearch.ask, step by step                *)

Unstarted == [i \in Invocations |-> None]
Zeroes == [i \in Invocations |-> 0]

\* the invocations of Started are at the entry of ask, the others never run
InitInvocations(Started, Ks, Ths) ==
    /\ pc = [i \in Invocations |-> IF i \in Started THEN "start" ELSE "idle"]
    /\ question \in [Invocations -> Questions]
    /\ \A i \in Invocations \ Started : question[i] = "q1"
    /\ top_k \in [Invocations -> Ks \cup {DefaultTopK}]
    /\ \A i \in Started : top_k[i] \in Ks
    /\ \A i \in Invocations \ Started : top_k[i] = DefaultTopK
    /\ score_threshold \in [Invocations -> Ths \cup {Some(DefaultThreshold)}]
    /\ \A i \in Started : score_threshold[i] \in Ths
    /\ \A i \in Invocations \ Started : score_threshold[i] = Some(DefaultThreshold)
    /\ r = Unstarted
    /\ vector = Unstarted
    /\ query = Unstarted
    /\ res = [i \in Invocations |-> <<>>]
    /\ result = Unstarted
    /\ error = Unstarted
    /\ embedCalls = Zeroes
    /\ queryCalls = Zeroes
    /\ response = Unstarted

\* the variant that keeps the vector in a field shared by all invocations
StoreVectorShared(i, v) == [j \in Invocations |-> Some(v)]

\* vector = self.embedder.embed(question): a local of the invocation
StoreVector(i, v) == [vector EXCEPT ![i] = Some(v)]

\* embed: requests.post is sent
CallEmbed(i) ==
    /\ pc[i] = "start"
    /\ pc' = [pc EXCEPT ![i] = "embedding"]
    /\ embedCalls' = [embedCalls EXCEPT ![i] = @ + 1]
    /\ UNCHANGED <<argvars, r, vector, query, res, result, error, queryCalls, response>>

\* embed: the provider answers 200 and embed returns the embedding
EmbedReturn(i) ==
    /\ pc[i] = "embedding"
    /\ r' = [r EXCEPT ![i] = Some(SuccessResponse(question[i]))]
    /\ vector' = StoreVector(i, ProviderEmbedding(question[i]))
    /\ pc' = [pc EXCEPT ![i] = "embedded"]
    /\ UNCHANGED <<argvars, query, res, result, error, embedCalls, queryCalls, response>>

\* the variant that calls embed again after a non-200 answer
EmbedRaiseRetry(i) ==
    /\ pc[i] = "embedding"
    /\ \E resp \in FailureResponses : r' = [r EXCEPT ![i] = Some(resp)]
    /\ pc' = [pc EXCEPT ![i] = "start"]
    /\ UNCHANGED <<argvars, vector, query, res, result, error, embedCalls, queryCalls, response>>

\* embed: the provider answers with another status, embed raises, and ask
\* lets the exception through
EmbedRaise(i) ==
    /\ pc[i] = "embedding"
    /\ \E resp \in FailureResponses :
          /\ r' = [r EXCEPT ![i] = Some(resp)]
          /\ error' = [error EXCEPT ![i] = Some(EmbedError(embedderImpl, resp))]
    /\ pc' = [pc EXCEPT ![i] = "failed"]
    /\ UNCHANGED <<argvars, vector, query, res, result, embedCalls, queryCalls, response>>

\* self.q.query_points(query=vector, limit=top_k, ...) is sent
CallQuery(i) ==
    /\ pc[i] = "embedded"
    /\ query' = [query EXCEPT ![i] = vector[i]]
    /\ queryCalls' = [queryCalls EXCEPT ![i] = @ + 1]
    /\ pc' = [pc EXCEPT ![i] = "querying"]
    /\ UNCHANGED <<argvars, r, vector, res, result, error, embedCalls, response>>

\* the index answers with at most top_k points and ask returns
QueryReturn(i) ==
    /\ pc[i] = "querying"
    /\ LET points == Take(index[query[i][1]], top_k[i])
       IN /\ res' = [res EXCEPT ![i] = points]
          /\ result' = [result EXCEPT ![i] = Some(AskReturn(points, score_threshold[i]))]
    /\ pc' = [pc EXCEPT ![i] = "done"]
    /\ UNCHANGED <<argvars, r, vector, query, error, embedCalls, queryCalls, response>>

\* the index cannot be reached: query_points raises and ask lets it through
QueryRaise(i) ==
    /\ pc[i] = "querying"
    /\ error' = [error EXCEPT ![i] = Some(<<"index unavailable">>)]
    /\ pc' = [pc EXCEPT ![i] = "failed"]
    /\ UNCHANGED <<argvars, r, vector, query, res, result, embedCalls, queryCalls, response>>

----------------------------------------------------------------------------
(* The noise filter with its policy profiles, ask_many and answer_text:    *)
(* the searcher methods question_api calls                                 *)

\* the minimum length of the loose profile
LooseMinLength == 40

\* a truncated slice is appended only if this much of the budget remains
TruncateMin == 120

\* "\n\n---\n\n"
Separator == <<"\n", "\n", "-", "-", "-", "\n", "\n">>

Profiles == {"strict", "loose"}

minSignalLength(profile) == IF profile = "strict" THEN MinLength ELSE LooseMinLength

\* isNoise: rules 1 to 4, and rule 5 in the strict profile
isNoise(text, profile) ==
    LET t == Strip(text)
    IN \/ t = <<>>
       \/ Len(t) < minSignalLength(profile)
       \/ PhoneSearch(t)
       \/ HasBadSubstring(t)
       \/ profile = "strict" /\ OnlyShortTokensMatch(ReplaceNewlines(t))

Match(p) ==
    [id |-> p.id,
     score |-> p.score,
     text |-> _extract_text(text_key, PayloadOrEmpty(p)),
     payload |-> PayloadOrEmpty(p)]

\* the candidates that pass the threshold, as matches, in the index's order
RECURSIVE SurvivingMatches(_, _)
SurvivingMatches(points, threshold) ==
    IF points = <<>> THEN <<>>
    ELSE LET rest == SurvivingMatches(Tail(points), threshold)
         IN IF BelowThreshold(Head(points), threshold) THEN rest
            ELSE <<Match(Head(points))>> \o rest

\* what ask_many returns once the index has answered with points
AskManyReturn(points, threshold) ==
    LET matches == SurvivingMatches(points, threshold)
    IN [found |-> matches # <<>>, matches |-> matches]

\* a missing score counts as 0.0
ScoreOrZero(m) == IF m.score = None THEN 0 ELSE m.score[1]

\* m put behind the elements of the descending sequence whose score is not lower
InsertDesc(sorted, m) ==
    LET k == Cardinality({j \in DOMAIN sorted : ScoreOrZero(sorted[j]) >= ScoreOrZero(m)})
    IN SubSeq(sorted, 1, k) \o <<m>> \o SubSeq(sorted, k + 1, Len(sorted))

\* stable sort, descending by score
RECURSIVE SortDesc(_)
SortDesc(matches) ==
    IF matches = <<>> THEN <<>>
    ELSE InsertDesc(SortDesc(SubSeq(matches, 1, Len(matches) - 1)), matches[Len(matches)])

\* steps 3 to 5: the texts selected from the n-th sorted match on
RECURSIVE SelectFrom(_, _, _, _, _, _, _)
SelectFrom(sorted, n, selected, total, maxChars, maxChunks, profile) ==
    IF n > Len(sorted) \/ Len(selected) >= maxChunks THEN selected
    ELSE LET t == Strip(sorted[n].text)
         IN IF t = <<>> \/ isNoise(t, profile) \/ t \in Range(selected)
            THEN SelectFrom(sorted, n + 1, selected, total, maxChars, maxChunks, profile)
            ELSE IF total + Len(t) > maxChars
            THEN IF maxChars - total >= TruncateMin
                 THEN Append(selected, SubSeq(t, 1, maxChars - total))
                 ELSE selected
            ELSE SelectFrom(sorted, n + 1, Append(selected, t), total + Len(t),
                            maxChars, maxChunks, profile)

RECURSIVE Join(_, _)
Join(texts, sep) ==
    IF texts = <<>> THEN <<>>
    ELSE IF Len(texts) = 1 THEN texts[1]
    ELSE texts[1] \o sep \o Join(Tail(texts), sep)

\* answer_text (assemble)
answer_text(matches, maxChars, maxChunks, profile) ==
    IF matches = <<>> THEN <<>>
    ELSE LET sorted == SortDesc(matches)
             selected == SelectFrom(sorted, 1, <<>>, 0, maxChars, maxChunks, profile)
         IN IF selected = <<>>
            THEN Take(Strip(sorted[1].text), maxChars)
            ELSE Join(selected, Separator)

----------------------------------------------------------------------------
(* Inputs of answer_text                                                   *)

\* matches in one call of answer_text
MaxMatches == 2

SignalC == Rep(<<"a", "m", "e", "t", " ", "e", "l", "i", "t", ",", " ">>, 150)
SignalShort == Rep(WordFill, 47)
PhoneText ==
    Rep(WordFill, 60) \o
    <<"+", "9", "9", "8", " ", "9", "0", " ", "1", "2", "3", " ", "4", "5", " ", "6", "7">>

AssembleTexts ==
    { <<>>,
      <<" ", "\n">>,
      <<"c", "a", "l", "l", " ", "n", "o", "w">>,
      SignalShort,
      SignalA,
      <<" ">> \o SignalA \o <<"\n">>,
      SignalB,
      SignalC,
      PhoneText }

AssembleScores == {None, Some(50), Some(90)}

AssembleMatches ==
    { [id |-> 0, score |-> sc, text |-> t, payload |-> EmptyPayload] :
        sc \in AssembleScores, t \in AssembleTexts }

MaxCharsChoices == {50, 125, 130, 220}
MaxChunksChoices == {1, 2}

InitAssemble ==
    /\ aMatches \in SeqsUpTo(AssembleMatches, MaxMatches)
    /\ aMaxChars \in MaxCharsChoices
    /\ aMaxChunks \in MaxChunksChoices
    /\ aRet = <<>>
    /\ aDone = FALSE

CallAnswerText ==
    /\ ~aDone
    /\ aRet' = answer_text(aMatches, aMaxChars, aMaxChunks, noiseProfile)
    /\ aDone' = TRUE
    /\ UNCHANGED <<aMatches, aMaxChars, aMaxChunks>>

----------------------------------------------------------------------------
(* question_api and its response model                                     *)

\* searcher.ask_many(body.question, top_k=12, score_threshold=None)
HandlerTopK == 12

\* searcher.answer_text(res["matches"], max_chars=1800, max_chunks=6)
HandlerMaxChars == 1800
HandlerMaxChunks == 6

\* res["matches"][:5]
MatchesShown == 5

\* "Topilmadi."
NotFoundAnswer == <<"T", "o", "p", "i", "l", "m", "a", "d", "i", ".">>

\* class AnswerResponse(BaseModel): answer: str
AnswerResponseFields == {"answer"}

\* response_model=AnswerResponse: the declared fields of the returned dict
ApplyResponseModel(ret) == [k \in DOMAIN ret \cap AnswerResponseFields |-> ret[k]]

\* the dict question_api returns
HandlerReturn(searched, context) ==
    IF context = <<>>
    THEN [answer |-> NotFoundAnswer, status |-> "ok", matches |-> <<>>]
    ELSE [answer |-> context, status |-> "ok",
          matches |-> Take(searched.matches, MatchesShown)]

\* the index answers, ask_many and answer_text return, question_api returns
\* and the response model is applied
ApiQueryReturn(i) ==
    /\ pc[i] = "querying"
    /\ LET points == Take(index[query[i][1]], top_k[i])
           searched == AskManyReturn(points, score_threshold[i])
           context == answer_text(searched.matches, HandlerMaxChars, HandlerMaxChunks,
                                  noiseProfile)
       IN /\ res' = [res EXCEPT ![i] = points]
          /\ result' = [result EXCEPT ![i] = Some(searched)]
          /\ response' = [response EXCEPT ![i] =
                             Some(ApplyResponseModel(HandlerReturn(searched, context)))]
    /\ pc' = [pc EXCEPT ![i] = "done"]
    /\ UNCHANGED <<argvars, r, vector, query, error, embedCalls, queryCalls>>

\* an answer of the index with more points than question_api shows
SixPoints ==
    << Point(1, Some(90), Some([text |-> StrValue(SignalA)])),
       Point(2, Some(20), Some([clean_text |-> StrValue(SignalB)])),
       Point(3, Some(50), Some([text |-> StrValue(Menu)])),
       Point(4, None, Some([text |-> OtherValue, body |-> StrValue(SignalB)])),
       Point(5, Some(10), None),
       Point(6, Some(80), Some([text |-> StrValue(SignalC)])) >>

----------------------------------------------------------------------------
(* Specifications                                                          *)

FilterIdle == fText = <<>> /\ fRet = FALSE /\ fDone = TRUE
ExtractIdle == xKey = "text" /\ xPayload = <<>> /\ xRet = <<>> /\ xDone = TRUE
AssembleIdle ==
    aMatches = <<>> /\ aMaxChars = 0 /\ aMaxChunks = 0 /\ aRet = <<>> /\ aDone = TRUE
WorldIdle ==
    /\ noiseProfile = "strict"
    /\ embedderImpl = HandlerEmbedder
    /\ index = [v \in Vectors |-> <<>>]
InvocationsIdle == InitInvocations({}, {DefaultTopK}, {Some(DefaultThreshold)})

\* _is_boilerplate applied to one input
InitSpecFilter ==
    InitFilter /\ ExtractIdle /\ AssembleIdle /\ WorldIdle /\ InvocationsIdle
NextFilter == CallIsBoilerplate /\ UNCHANGED <<xvars, avars, wvars, ivars>>
SpecFilter == InitSpecFilter /\ [][NextFilter]_vars

\* _extract_text applied to one payload
InitSpecExtract ==
    InitExtract /\ FilterIdle /\ AssembleIdle /\ WorldIdle /\ InvocationsIdle
NextExtract == CallExtractText /\ UNCHANGED <<fvars, avars, wvars, ivars>>
SpecExtract == InitSpecExtract /\ [][NextExtract]_vars

\* one invocation of ask, on either embedder, against an index that answers
\* with any list of points
InitSpecAsk ==
    /\ FilterIdle /\ ExtractIdle /\ AssembleIdle
    /\ noiseProfile = "strict"
    /\ embedderImpl \in EmbedderImpls
    /\ index \in {[v \in Vectors |-> points] : points \in PointLists}
    /\ InitInvocations({1}, TopKs, Thresholds)

\* ask touches nothing but its own invocation
PureUntouched == UNCHANGED <<fvars, xvars, avars, wvars>>

NextAsk ==
    \/ \E i \in Invocations : CallEmbed(i) /\ PureUntouched
    \/ \E i \in Invocations : EmbedReturn(i) /\ PureUntouched
    \/ \E i \in Invocations : EmbedRaise(i) /\ PureUntouched
    \/ \E i \in Invocations : CallQuery(i) /\ PureUntouched
    \/ \E i \in Invocations : QueryReturn(i) /\ PureUntouched
    \/ \E i \in Invocations : QueryRaise(i) /\ PureUntouched

SpecAsk == InitSpecAsk /\ [][NextAsk]_vars

\* invocations of ask that run concurrently on the module-level searcher
InitSpecConcurrent ==
    /\ FilterIdle /\ ExtractIdle /\ AssembleIdle
    /\ noiseProfile = "strict"
    /\ embedderImpl = HandlerEmbedder
    /\ index = IndexByVector
    /\ InitInvocations(Invocations, {DefaultTopK}, Thresholds)

SpecConcurrent == InitSpecConcurrent /\ [][NextAsk]_vars

\* answer_text applied to one list of matches
InitSpecAssemble ==
    /\ InitAssemble /\ FilterIdle /\ ExtractIdle
    /\ noiseProfile \in Profiles
    /\ embedderImpl = HandlerEmbedder
    /\ index = [v \in Vectors |-> <<>>]
    /\ InvocationsIdle
NextAssemble == CallAnswerText /\ UNCHANGED <<fvars, xvars, wvars, ivars>>
SpecAssemble == InitSpecAssemble /\ [][NextAssemble]_vars

\* one request to question_api, on the searcher the endpoint module builds
InitSpecApi ==
    /\ FilterIdle /\ ExtractIdle /\ AssembleIdle
    /\ noiseProfile \in Profiles
    /\ embedderImpl = HandlerEmbedder
    /\ index \in {[v \in Vectors |-> points] : points \in PointLists \cup {SixPoints}}
    /\ InitInvocations({1}, {HandlerTopK}, {None})

NextApi ==
    \/ \E i \in Invocations : CallEmbed(i) /\ PureUntouched
    \/ \E i \in Invocations : EmbedReturn(i) /\ PureUntouched
    \/ \E i \in Invocations : EmbedRaise(i) /\ PureUntouched
    \/ \E i \in Invocations : CallQuery(i) /\ PureUntouched
    \/ \E i \in Invocations : ApiQueryReturn(i) /\ PureUntouched
    \/ \E i \in Invocations : QueryRaise(i) /\ PureUntouched

SpecApi == InitSpecApi /\ [][NextApi]_vars

----------------------------------------------------------------------------
(* Notions the properties are stated in, independent of the code's own     *)
(* helpers                                                                  *)

Min(S) == CHOOSE m \in S : \A n \in S : m <= n
Max(S) == CHOOSE m \in S : \A n \in S : n <= m

\* the positions of s that hold a character other than whitespace
InkPositions(s) == {i \in DOMAIN s : s[i] \notin {" ", "\n", "\t"}}

\* s without its leading and trailing whitespace
Trimmed(s) ==
    IF InkPositions(s) = {} THEN <<>>
    ELSE SubSeq(s, Min(InkPositions(s)), Max(InkPositions(s)))

DigitPositions(s) == {i \in DOMAIN s : s[i] \in Digits}

\* s[i..j] starts and ends with a digit and holds only digits, whitespace,
\* hyphens and parentheses
IsDigitGroups(s, i, j) ==
    /\ i <= j
    /\ \A k \in i..j : s[k] \in Digits \cup {" ", "\n", "\t", "-", "(", ")"}

\* digit groups totalling at least 9 digits
HasNineDigitGroups(s) ==
    \E i \in DigitPositions(s), j \in DigitPositions(s) :
        /\ IsDigitGroups(s, i, j)
        /\ Cardinality(DigitPositions(s) \cap (i..j)) >= 9

\* digit groups spanning at least 9 characters, separators included
HasNineCharDigitGroups(s) ==
    \E i \in DigitPositions(s), j \in DigitPositions(s) :
        /\ IsDigitGroups(s, i, j)
        /\ j - i + 1 >= 9

SameLetter(a, b) ==
    \/ a = b
    \/ \E n \in DOMAIN LowerLetters :
          {a, b} \subseteq {LowerLetters[n], UpperLetters[n]}

\* s holds a denylisted phrase, letter case ignored
HasDenylistedPhrase(s) ==
    \E n \in DOMAIN _bad_substrings :
        LET ph == _bad_substrings[n]
        IN \E i \in 0..(Len(s) - Len(ph)) :
              \A k \in DOMAIN ph : SameLetter(s[i + k], ph[k])

\* the starts of the maximal runs of word characters of s
WordRunStarts(s) ==
    {i \in DOMAIN s : s[i] \in WordChars /\ (i = 1 \/ s[i - 1] \notin WordChars)}

WordRunLength(s, i) ==
    Min({j \in i..(Len(s) + 1) : j = Len(s) + 1 \/ s[j] \notin WordChars}) - i

\* the least number of groups of 1 to 3 word characters the runs of S split into
RECURSIVE GroupsNeeded(_, _)
GroupsNeeded(s, S) ==
    IF S = {} THEN 0
    ELSE LET i == CHOOSE x \in S : TRUE
         IN ((WordRunLength(s, i) + 2) \div 3) + GroupsNeeded(s, S \ {i})

\* s consists only of 1 to 6 word-like groups of 1 to 3 characters
IsFewShortGroups(s) ==
    /\ WordRunStarts(s) # {}
    /\ GroupsNeeded(s, WordRunStarts(s)) <= 6

----------------------------------------------------------------------------
(* C1, C2                                                                   *)

\* C1: the string answer_text returns, separators included, has length at
\* most max_chars.
C1_AnswerWithinBudget == aDone => Len(aRet) <= aMaxChars

\* C2: answer_text returns the empty string only if every match has empty
\* text: when some match carries text, the output is non-empty, also when all
\* texts are noise and when the first qualifying text does not fit.
C2_EmptyOnlyIfAllEmpty ==
    aDone /\ (\E n \in DOMAIN aMatches : InkPositions(aMatches[n].text) # {})
        => aRet # <<>>

----------------------------------------------------------------------------
(* C3                                                                       *)

ProbeOrder(primary) == <<primary, "clean_text", "text", "body", "answer", "question">>

HoldsText(payload, k) ==
    /\ k \in DOMAIN payload
    /\ payload[k].kind = "str"
    /\ InkPositions(payload[k].val) # {}

\* C3: _extract_text returns the trimmed value of the first key, in the order
\* text_key, clean_text, text, body, answer, question, that holds a string
\* which is non-empty after trimming, and the empty string exactly when no
\* probed key holds such a string.
C3_ExtractFirstUsable ==
    xDone =>
        LET order == ProbeOrder(xKey)
            hits == {i \in DOMAIN order : HoldsText(xPayload, order[i])}
        IN IF hits = {} THEN xRet = <<>>
           ELSE /\ xRet = Trimmed(xPayload[order[Min(hits)]].val)
                /\ xRet # <<>>

\* the primary key holds only whitespace, clean_text is no string, and the
\* value found under a later fallback key comes back trimmed
C3_Witness ==
    /\ xDone
    /\ xKey = "content"
    /\ "content" \in DOMAIN xPayload /\ xPayload["content"] = StrValue(<<" ", "\n">>)
    /\ "clean_text" \in DOMAIN xPayload /\ xPayload["clean_text"] = OtherValue
    /\ "text" \notin DOMAIN xPayload
    /\ "body" \in DOMAIN xPayload /\ xPayload["body"] = StrValue(<<" ", "h", "i", "\t">>)
    /\ "answer" \in DOMAIN xPayload /\ xPayload["answer"] = StrValue(<<"y", "o">>)
    /\ xRet = <<"h", "i">>

----------------------------------------------------------------------------
(* C4                                                                       *)

\* C4 as stated: _is_boilerplate returns true exactly when the text is empty
\* or all whitespace, its trimmed length is below 60, it contains digit groups
\* totalling at least 9 digits, it contains a denylisted phrase, or it
\* consists only of at most 6 word-like groups of 1 to 3 characters.
C4_NoiseIffPolicy ==
    fDone =>
        (fRet <=> \/ InkPositions(fText) = {}
                  \/ Len(Trimmed(fText)) < 60
                  \/ HasNineDigitGroups(fText)
                  \/ HasDenylistedPhrase(fText)
                  \/ IsFewShortGroups(Trimmed(fText)))

\* C4 amended: the phone rule holds of digit groups that span at least 9
\* characters, separators included, whatever the number of digits.
C4_NoiseIffPolicySpan ==
    fDone =>
        (fRet <=> \/ InkPositions(fText) = {}
                  \/ Len(Trimmed(fText)) < 60
                  \/ HasNineCharDigitGroups(fText)
                  \/ HasDenylistedPhrase(fText)
                  \/ IsFewShortGroups(Trimmed(fText)))

\* a text of 60 characters or more is judged noise by the phone rule alone,
\* on digit groups of fewer than 9 digits
C4_Witness ==
    /\ fDone
    /\ fRet
    /\ Len(Trimmed(fText)) >= 60
    /\ HasNineCharDigitGroups(fText)
    /\ ~HasNineDigitGroups(fText)
    /\ ~HasDenylistedPhrase(fText)
    /\ ~IsFewShortGroups(Trimmed(fText))

----------------------------------------------------------------------------
(* C5, C6                                                                   *)

Finished(i) == pc[i] = "done"

\* the threshold is set and the candidate's score is below it
IsRejected(p, threshold) ==
    Len(threshold) = 1 /\ Len(p.score) = 1 /\ p.score[1] < threshold[1]

Survivors(i) == {n \in DOMAIN res[i] : ~IsRejected(res[i][n], score_threshold[i])}

PayloadOf(p) == IF Len(p.payload) = 1 THEN p.payload[1] ELSE <<>>

\* the candidate's score and payload are the ones the result carries
AppearsIn(p, ret) == ret.score = p.score /\ ret.payload = <<PayloadOf(p)>>

\* the noise filter accepts the text extracted from the candidate
HasSignalText(p) == ~_is_boilerplate(_extract_text("text", PayloadOf(p)))

\* C5 as stated: a candidate whose score is below the threshold that is set
\* never appears in the result of the call, also when every candidate is
\* rejected.
C5_RejectedNeverReturned ==
    \A i \in Invocations :
        Finished(i) =>
            \A n \in DOMAIN res[i] :
                IsRejected(res[i][n], score_threshold[i]) => ~AppearsIn(res[i][n], result[i][1])

\* C5 amended: a rejected candidate is never returned with found = true; it
\* appears in the result only with found = false, as the first candidate the
\* index returned.
C5_RejectedOnlyAsFallback ==
    \A i \in Invocations :
        Finished(i) =>
            \A n \in DOMAIN res[i] :
                IsRejected(res[i][n], score_threshold[i]) /\ AppearsIn(res[i][n], result[i][1])
                    => ~result[i][1].found /\ AppearsIn(res[i][1], result[i][1])

\* every candidate is rejected by the threshold and the first one is returned
\* all the same, with found = false
C5_Witness ==
    /\ Finished(1)
    /\ Len(res[1]) >= 2
    /\ Survivors(1) = {}
    /\ ~result[1][1].found
    /\ AppearsIn(res[1][1], result[1][1])
    /\ result[1][1].text # <<>>

\* C6 as stated: found = true exactly when at least one candidate survives
\* threshold filtering; no answer of the index makes the call raise.
C6_FoundIffSurvivors ==
    \A i \in Invocations :
        /\ Finished(i) => (result[i][1].found <=> Survivors(i) # {})
        /\ Finished(i) => error[i] = <<>>

\* C6 amended: found = true exactly when at least one candidate survives
\* threshold filtering and carries text the noise filter accepts; no answer of
\* the index makes the call raise.
C6_FoundIffSignalSurvivor ==
    \A i \in Invocations :
        /\ Finished(i) =>
              (result[i][1].found <=> \E n \in Survivors(i) : HasSignalText(res[i][n]))
        /\ Finished(i) => error[i] = <<>>
        /\ pc[i] = "failed" => result[i] = <<>> /\ error[i] # <<>>

\* candidates survive the threshold, all of them noise: found = false
C6_Witness ==
    /\ Finished(1)
    /\ Survivors(1) # {}
    /\ \A n \in Survivors(1) : ~HasSignalText(res[1][n])
    /\ ~result[1][1].found

----------------------------------------------------------------------------
(* C7                                                                       *)

\* C7: an invocation sends one request to the embedding provider and at most
\* one query to the index, the query only after the provider has answered
\* with the embedding, which is the vector the query carries; nothing is sent
\* a second time.
C7_OneEmbedThenOneQuery ==
    \A i \in Invocations :
        /\ embedCalls[i] <= 1
        /\ queryCalls[i] <= 1
        /\ pc[i] \notin {"idle", "start"} => embedCalls[i] = 1
        /\ queryCalls[i] = 1 =>
              /\ embedCalls[i] = 1
              /\ r[i] # <<>> /\ r[i][1].status_code = "200"
              /\ query[i] = <<r[i][1].text>>
        /\ pc[i] \in {"querying", "done"} <=> queryCalls[i] = 1 /\ error[i] = <<>>

\* an invocation has returned after one embedding request and one query
C7_Witness ==
    /\ Finished(1)
    /\ embedCalls[1] = 1
    /\ queryCalls[1] = 1
    /\ result[1] # <<>>

----------------------------------------------------------------------------
(* C8                                                                       *)

\* C8: when the provider answers with a non-success status, the error that
\* reaches the caller of the retrieval call carries the status code and the
\* response body, and no index query is made; this holds for the embedder the
\* request handler constructs.
C8_EmbedErrorCarriesStatusAndBody ==
    \A i \in Invocations :
        pc[i] = "failed" /\ r[i] # <<>> /\ r[i][1].status_code # "200"
          /\ embedderImpl = HandlerEmbedder
            => /\ error[i] # <<>>
               /\ r[i][1].status_code \in Range(error[i][1])
               /\ r[i][1].text \in Range(error[i][1])
               /\ queryCalls[i] = 0

----------------------------------------------------------------------------
(* C10                                                                      *)

\* what ask returns for the arguments of invocation i when nothing else runs
AloneResult(i) ==
    AskReturn(Take(index[ProviderEmbedding(question[i])], top_k[i]), score_threshold[i])

\* C10: under every interleaving of concurrent invocations on the shared
\* embedder and searcher, an invocation that returns returns what it would
\* return when run alone on the same question.
C10_ResultAsWhenAlone ==
    \A i \in Invocations :
        /\ Finished(i) => result[i] = <<AloneResult(i)>>
        /\ query[i] # <<>> => query[i] = <<ProviderEmbedding(question[i])>>

\* two invocations with different questions have both returned, each with its
\* own result
C10_Witness ==
    /\ Finished(1) /\ Finished(2)
    /\ question[1] # question[2]
    /\ result[1][1].found # result[2][1].found
    /\ embedCalls[1] = 1 /\ embedCalls[2] = 1

----------------------------------------------------------------------------
(* C9                                                                       *)

\* C9: the caller of question_api receives answer, status "ok" and matches:
\* the fixed fallback answer and no matches when no context is assembled,
\* otherwise the assembled context and the first 5 retrieved matches in
\* retrieval order.
C9_ResponseCarriesAnswerStatusMatches ==
    \A i \in Invocations :
        Finished(i) /\ response[i] # <<>> =>
            LET resp == response[i][1]
                matches == result[i][1].matches
                context == answer_text(matches, 1800, 6, noiseProfile)
            IN /\ DOMAIN resp = {"answer", "status", "matches"}
               /\ resp.status = "ok"
               /\ IF context = <<>>
                  THEN resp.answer = NotFoundAnswer /\ resp.matches = <<>>
                  ELSE /\ resp.answer = context
                       /\ resp.matches = SubSeq(matches, 1, Min({5, Len(matches)}))

====
